---- MODULE Spec2Model ----
(***************************************************************************)
(* Offline attendance synchronisation of the school attendance portal.     *)
(*                                                                         *)
(* The client keeps attendance records in the IndexedDB object store       *)
(* 'attendanceRecords' (class OfflineStorage, client/src/lib/pdf-export.ts)*)
(* and two reconcilers drain it against POST /api/attendance/mark          *)
(* (server/routes.ts, server/storage.ts): the page's                       *)
(* OfflineStorage.syncWithServer, started by the 'online' handler of       *)
(* setupAutoSync, and the service worker's syncAttendanceData, started by  *)
(* the 'sync' / 'periodicsync' events.  The manual attendance form posts   *)
(* to the same endpoint directly.                                          *)
(*                                                                         *)
(* Modelling conventions:                                                  *)
(*  - an IndexedDB transaction is atomic, so every store operation is one  *)
(*    step; every await on the network separates two steps;                *)
(*  - the index lookup on 'synced' is modelled with the meaning the code   *)
(*    gives it (all records whose synced field is false, in primary-key    *)
(*    order);                                                              *)
(*  - the random suffix of generateId is a value never drawn before for    *)
(*    the same clock reading;                                              *)
(*  - `online` is the reachability of the server: a fetch reaches the      *)
(*    server iff online, and the browser dispatches 'online' when it       *)
(*    becomes true.                                                        *)
(***************************************************************************)
EXTENDS Integers, Sequences, FiniteSets, TLC

\* ------------------------------------------------------------------ bounds
MaxRecords == 2      \* storeAttendanceRecord calls in a behaviour
MaxTime == 2         \* largest reading of Date.now()
MaxRows == 3         \* rows the server ledger may hold
NumPagePasses == 1   \* syncWithServer calls that may run at once
NumStudents == 1     \* students on the roster of the class
RetryCeiling == 10   \* the specification's retry ceiling (the code has none)
ScenarioRecords == 3 \* events of the offline-mark-then-reconnect scenario
MaxStudents == 2     \* students MemStorage.students may ever hold

Students == 1..NumStudents
Statuses == {"present", "absent"}
Suffixes == 0..(MaxRecords - 1)
PagePasses == 1..NumPagePasses
SwPass == 0
Passes == PagePasses \cup {SwPass}
Today == "d1"
TheClass == "c1"
TheSubject == "math"
ThePeriod == "p1"
TheTeacher == "t1"
Null == "null"
NoId == <<0, 0>>
None == <<>>
Some(x) == <<x>>
Classes == {TheClass, "c2"}
RollNumbers == 1..MaxStudents
\* request urls of the roster: '/api/students' with or without '?class='
RosterUrl(className) == <<"/api/students", className>>
RosterUrls == {RosterUrl(c) : c \in {Null, TheClass}}
\* a row of MemStorage.students
Student(id, roll, class) ==
    [id |-> id, rollNumber |-> roll, class |-> class, isActive |-> TRUE]
\* the students the MemStorage constructor creates
SampleStudents == 1 :> Student(1, 1, TheClass)

VARIABLES
    online,        \* navigator.onLine
    session,       \* req.isAuthenticated() for the client's cookie
    clock,         \* Date.now()
    usedIds,       \* ids generateId has produced so far
    records,       \* object store 'attendanceRecords': id -> record
    lastSync,      \* localStorage 'attendance_last_sync' (0 = absent)
    pass,          \* the reconciliation pass running in each slot
    attendance,    \* MemStorage.attendance, in insertion order
    rowOrigin,     \* history: local id each ledger row was submitted from
    receivedIds,   \* history: local ids carried by the requests the server got
    syncedCount,   \* history: unsynced -> synced transitions per local id
    uiSubmitted,   \* history: attendance marks the teacher has submitted
    enqueued,      \* history: (studentId, date, period) of every enqueue
    failures,      \* history: consecutive failed submissions per watched id
    navIsOnline,   \* MobileNav's isOnline state (None: not mounted)
    students,      \* MemStorage.students: id -> student
    swCache,       \* the service worker's DYNAMIC_CACHE: url -> cached body
    studentsCache, \* object store 'studentsCache': id -> cached student
    preload,       \* response preloadStudentsForOffline is about to cache
    rosterRead,    \* the response handleApiRequest gave the last roster read
    lastFetched,   \* history: list of the last successful roster fetch
    storeOk,       \* the IndexedDB database can be opened and read
    apiReply,      \* history: the last request of an API client and its answer
    abandoned,     \* history: what was under way when the process was killed
    write          \* the store write in progress, request by request

idVars == <<usedIds, enqueued>>

rosterVars == <<students, swCache, studentsCache, preload, rosterRead,
                lastFetched>>

extVars == <<storeOk, apiReply, abandoned, write>>

auxVars == <<navIsOnline, rosterVars, extVars>>

vars == <<online, session, clock, idVars, records, lastSync, pass,
          attendance, rowOrigin, receivedIds, syncedCount, uiSubmitted,
          failures, auxVars>>

clientVars == <<idVars, records, lastSync, pass, syncedCount>>
serverVars == <<attendance, rowOrigin, receivedIds>>

\* ----------------------------------------------------------- pure helpers
\* order of the primary keys 'offline_<ms>_<suffix>'
IdLess(a, b) == a[1] < b[1] \/ (a[1] = b[1] /\ a[2] < b[2])

RECURSIVE SetToSeq(_)
\* the elements of a set of ids as a sequence in primary-key order
SetToSeq(S) ==
    IF S = {} THEN <<>>
    ELSE LET m == CHOOSE x \in S : \A y \in S \ {x} : IdLess(x, y)
         IN <<m>> \o SetToSeq(S \ {m})

\* 'offline_' + Date.now() + '_' + random suffix
generateId_RandomFirst(t, suffix) == <<suffix, t>>

generateId(t, suffix) == <<t, suffix>>

\* the record storeAttendanceRecord builds from its argument
OfflineRecord(rec, id, t) ==
    [id |-> id, studentId |-> rec.studentId, teacherId |-> rec.teacherId,
     class |-> rec.class, subject |-> rec.subject, period |-> rec.period,
     status |-> rec.status, method |-> rec.method, date |-> rec.date,
     timestamp |-> t, synced |-> FALSE]

\* store.add(offlineRecord) under a key the store does not hold
AddRecord_Overwrite(store, r) ==
    LET keep == {id \in DOMAIN store :
                    <<store[id].studentId, store[id].date, store[id].period>>
                        # <<r.studentId, r.date, r.period>>}
    IN [id \in keep \cup {r.id} |-> IF id = r.id THEN r ELSE store[id]]

AddRecord(store, r) == store @@ (r.id :> r)

\* records whose 'synced' index key is false
PendingIds == {id \in DOMAIN records : ~records[id].synced}

\* index.getAll(false): the pending records in primary-key order
getPendingAttendanceRecords ==
    LET ids == SetToSeq(PendingIds)
    IN [i \in 1..Len(ids) |-> records[ids[i]]]

\* record.synced = true; store.put(record)
MarkSynced_Toggle(r) == [r EXCEPT !.synced = ~r.synced]

MarkSynced(r) == [r EXCEPT !.synced = TRUE]

\* apiRecord of syncWithServer: the local id is not part of it
ApiRecord(r) ==
    [studentId |-> r.studentId, class |-> r.class, subject |-> r.subject,
     period |-> r.period, status |-> r.status, method |-> r.method,
     date |-> r.date]

\* the service worker posts the stored record as it is
SwRecord(r) == r

\* response.ok
ResponseOk_Any(status) == TRUE

ResponseOk(status) == status >= 200 /\ status <= 299

\* insertAttendanceSchema.parse succeeds
ParseOk(data) ==
    /\ {"studentId", "class", "status", "method"} \subseteq DOMAIN data
    /\ data.status \in Statuses

\* insertAttendanceSchema.parse({...data, teacherId, date}): unknown keys
\* are stripped
InsertAttendance(data, user) ==
    [studentId |-> data.studentId, teacherId |-> user, class |-> data.class,
     subject |-> IF "subject" \in DOMAIN data THEN data.subject ELSE Null,
     date |-> IF "date" \in DOMAIN data THEN data.date ELSE Today,
     period |-> IF "period" \in DOMAIN data THEN data.period ELSE Null,
     status |-> data.status, method |-> data.method]

\* MemStorage.createAttendance: a new row under a fresh uuid
createAttendance(rows, ins, t) ==
    Append(rows, [id |-> Len(rows) + 1, studentId |-> ins.studentId,
                  teacherId |-> ins.teacherId, class |-> ins.class,
                  subject |-> ins.subject, date |-> ins.date,
                  period |-> ins.period, status |-> ins.status,
                  method |-> ins.method, markedAt |-> t])

RECURSIVE MarkLoop(_, _, _, _)
\* the for loop of POST /api/attendance/mark
MarkLoop(rows, body, i, t) ==
    IF i > Len(body) THEN [status |-> 201, rows |-> rows]
    ELSE IF ~ParseOk(body[i]) THEN [status |-> 400, rows |-> rows]
    ELSE MarkLoop(createAttendance(rows, InsertAttendance(body[i], TheTeacher), t),
                  body, i + 1, t)

\* POST /api/attendance/mark
PostAttendanceMark(rows, body, auth, t) ==
    IF ~auth THEN [status |-> 401, rows |-> rows]
    ELSE MarkLoop(rows, body, 1, t)

IdlePass ==
    [pc |-> "idle", snap |-> <<>>, pos |-> 1, status |-> 0,
     success |-> 0, failed |-> 0]

\* ------------------------------------------------------------------- Init
Init ==
    /\ online \in BOOLEAN
    /\ session = TRUE
    /\ clock = 1
    /\ usedIds = {}
    /\ records = [id \in {} |-> 0]
    /\ lastSync = 0
    /\ pass = [p \in Passes |-> IdlePass]
    /\ attendance = <<>>
    /\ rowOrigin = <<>>
    /\ receivedIds = {}
    /\ syncedCount = [id \in {} |-> 0]
    /\ uiSubmitted = {}
    /\ enqueued = {}
    /\ failures = [id \in {} |-> 0]
    /\ navIsOnline = None
    /\ students = SampleStudents
    /\ swCache = [u \in RosterUrls |-> None]
    /\ studentsCache = [id \in {} |-> 0]
    /\ preload = None
    /\ rosterRead = None
    /\ lastFetched = None
    /\ storeOk = TRUE
    /\ apiReply = None
    /\ abandoned = [ids |-> {}, writes |-> {}]
    /\ write = None

\* ------------------------------------------------------------ environment
\* the connection drops; the 'offline' handler only logs
GoOffline ==
    /\ online
    /\ online' = FALSE
    /\ UNCHANGED <<session, clock, clientVars, serverVars, uiSubmitted, failures, auxVars>>

\* OfflineStorage.getSyncStatus
getSyncStatus ==
    [lastSync |-> lastSync,
     pendingRecords |-> Len(getPendingAttendanceRecords),
     isOnline |-> online]

\* snapshot with which a pass starts
StartedPass_NewerOnly ==
    [pc |-> "fetch",
     snap |-> SelectSeq(getPendingAttendanceRecords,
                        LAMBDA r : r.timestamp > lastSync),
     pos |-> 1, status |-> 0, success |-> 0, failed |-> 0]

StartedPass ==
    [pc |-> "fetch", snap |-> getPendingAttendanceRecords,
     pos |-> 1, status |-> 0, success |-> 0, failed |-> 0]

\* the connection returns: the 'online' handler of setupAutoSync calls
\* syncWithServer, which first reads the pending records; without a
\* database the read throws, syncWithServer rejects and the handler's catch
\* logs 'Auto-sync failed'
GoOnline(p) ==
    /\ p \in PagePasses
    /\ ~online
    /\ pass[p].pc = "idle"
    /\ online' = TRUE
    /\ pass' = [pass EXCEPT ![p] = IF storeOk THEN StartedPass ELSE IdlePass]
    /\ UNCHANGED <<session, clock, idVars, records, lastSync, syncedCount,
                   serverVars, uiSubmitted, failures, auxVars>>

\* the service worker's getPendingAttendanceRecords: when the database
\* cannot be opened the catch logs and returns []
SwPendingAttendanceRecords ==
    IF storeOk THEN getPendingAttendanceRecords ELSE <<>>

\* the browser dispatches 'sync' or 'periodicsync' with tag attendance-sync:
\* syncAttendanceData reads the pending records
SwSync ==
    /\ pass[SwPass].pc = "idle"
    /\ pass' = [pass EXCEPT ![SwPass] =
                  [StartedPass EXCEPT !.snap = SwPendingAttendanceRecords]]
    /\ UNCHANGED <<online, session, clock, idVars, records, lastSync,
                   syncedCount, serverVars, uiSubmitted, failures, auxVars>>

\* the session expires or the user logs out / logs in again
Logout ==
    /\ session
    /\ session' = FALSE
    /\ UNCHANGED <<online, clock, clientVars, serverVars, uiSubmitted, failures, auxVars>>

Login ==
    /\ ~session
    /\ session' = TRUE
    /\ UNCHANGED <<online, clock, clientVars, serverVars, uiSubmitted, failures, auxVars>>

Tick ==
    /\ clock < MaxTime
    /\ clock' = clock + 1
    /\ UNCHANGED <<online, session, clientVars, serverVars, uiSubmitted, failures, auxVars>>

\* ------------------------------------------------------------ local store
\* OfflineStorage.storeAttendanceRecord: store.add of a new record; the
\* clock may advance between generateId() and the timestamp read
\* at most `cap` calls are made in a behaviour; a status of Null is an event
\* without the field (nothing in the method looks at the fields)
Enqueue(student, status, suffix, dt, cap) ==
    LET id == generateId(clock, suffix)
        rec == [studentId |-> student, teacherId |-> TheTeacher,
                class |-> TheClass, subject |-> TheSubject,
                period |-> ThePeriod, status |-> status, method |-> "manual",
                date |-> Today]
    IN /\ storeOk
       /\ Cardinality(usedIds) < cap
       /\ clock + dt <= MaxTime
       /\ id \notin usedIds
       /\ usedIds' = usedIds \cup {id}
       /\ clock' = clock + dt
       /\ records' = AddRecord(records, OfflineRecord(rec, id, clock + dt))
       /\ syncedCount' = syncedCount @@ (id :> 0)
       /\ enqueued' = enqueued \cup {<<student, Today, ThePeriod>>}
       /\ UNCHANGED <<online, session, lastSync, pass, serverVars, uiSubmitted,
                      auxVars>>

storeAttendanceRecord(student, status, suffix, dt) ==
    /\ Enqueue(student, status, suffix, dt, MaxRecords)
    /\ UNCHANGED failures

\* OfflineStorage.clearOfflineData
clearOfflineData ==
    /\ storeOk
    /\ records' = [id \in {} |-> 0]
    /\ studentsCache' = [id \in {} |-> 0]
    /\ lastSync' = 0
    /\ UNCHANGED <<online, session, clock, idVars, pass, syncedCount,
                   serverVars, uiSubmitted, failures, navIsOnline, students,
                   swCache, preload, rosterRead, lastFetched, extVars>>

\* ---------------------------------------------------------------- network
\* what can happen to a request: the server is not reached, it answers, or
\* it handles the request and the connection drops before the answer
Outcomes == IF online THEN {"answered", "lost"} ELSE {"unreachable"}

\* what fetch('/api/attendance/mark', POST body) gives the caller (status 0:
\* fetch threw) and the ledger it leaves
Reply(body, o) ==
    IF o = "unreachable" THEN [status |-> 0, rows |-> attendance]
    ELSE LET r == PostAttendanceMark(attendance, body, session, clock)
         IN [status |-> IF o = "answered" THEN r.status ELSE 0, rows |-> r.rows]

\* the effect of the request on the server and the connection; `origins`
\* (the local id behind each element of the body) is history only
Post(body, origins, o) ==
    /\ o \in Outcomes
    /\ Len(Reply(body, o).rows) <= MaxRows
    /\ attendance' = Reply(body, o).rows
    /\ rowOrigin' = rowOrigin \o SubSeq(origins, 1, Len(Reply(body, o).rows) - Len(attendance))
    /\ receivedIds' = IF o = "unreachable" THEN receivedIds
                      ELSE receivedIds \cup {body[i].id : i \in {j \in 1..Len(body) : "id" \in DOMAIN body[j]}}
    /\ online' = IF o = "lost" THEN FALSE ELSE online

\* store.get(recordId) then store.put of the record with synced = true
markRecordSynced_NoPut(store, id) == store

markRecordSynced(store, id) ==
    IF id \in DOMAIN store THEN [store EXCEPT ![id] = MarkSynced(store[id])]
    ELSE store

\* history: the consecutive failed submissions of a watched record after a
\* submission that was answered `status`
CountFailure(cnt, id, status) ==
    IF id \in DOMAIN cnt
    THEN [cnt EXCEPT ![id] = IF ResponseOk(status) THEN 0 ELSE @ + 1]
    ELSE cnt

\* the submissions of a watched record are followed up to one past the ceiling
Followed(id) == id \in DOMAIN failures => failures[id] <= RetryCeiling

\* history: count the unsynced -> synced transitions of a store update
CountTransitions(cnt, old, new) ==
    [id \in DOMAIN cnt |->
        IF id \in DOMAIN old /\ id \in DOMAIN new
           /\ ~old[id].synced /\ new[id].synced
        THEN cnt[id] + 1 ELSE cnt[id]]

\* --------------------------------------------------------- syncWithServer
\* the bookkeeping of the loop once fetch has settled (status 0: it threw)
AfterResponse(ps, status) ==
    IF ResponseOk(status)
    THEN [ps EXCEPT !.status = status, !.pc = "mark"]
    ELSE [ps EXCEPT !.status = status, !.pos = ps.pos + 1,
                    !.failed = ps.failed + 1]

\* return { success, failed }
SyncResult(ps) == [success |-> ps.success, failed |-> ps.failed]

\* one iteration of the for loop up to the answer of fetch
SyncFetch(p, o) ==
    LET ps == pass[p]
        r == ps.snap[ps.pos]
        body == <<ApiRecord(r)>>
        status == Reply(body, o).status
    IN /\ p \in PagePasses /\ ps.pc = "fetch" /\ ps.pos <= Len(ps.snap)
       /\ Followed(r.id)
       /\ Post(body, <<r.id>>, o)
       /\ failures' = CountFailure(failures, r.id, status)
       /\ pass' = [pass EXCEPT ![p] = AfterResponse(ps, status)]
       /\ UNCHANGED <<session, clock, idVars, records, lastSync, syncedCount,
                      uiSubmitted, auxVars>>

\* await this.markRecordSynced(record.id); success++  (a missing record
\* or a missing database rejects, which the catch counts as failed)
SyncMark(p) ==
    LET ps == pass[p]
        id == ps.snap[ps.pos].id
    IN /\ p \in PagePasses /\ ps.pc = "mark"
       /\ records' = IF storeOk THEN markRecordSynced(records, id) ELSE records
       /\ syncedCount' = CountTransitions(syncedCount, records, records')
       /\ pass' = [pass EXCEPT ![p] =
            IF storeOk /\ id \in DOMAIN records
            THEN [ps EXCEPT !.pc = "fetch", !.pos = ps.pos + 1,
                            !.success = ps.success + 1]
            ELSE [ps EXCEPT !.pc = "fetch", !.pos = ps.pos + 1,
                            !.failed = ps.failed + 1]]
       /\ UNCHANGED <<online, session, clock, idVars, lastSync, serverVars,
                      uiSubmitted, failures, auxVars>>

\* after the loop: setLastSyncTime when something succeeded; return
SyncReturn_Always(p) ==
    LET ps == pass[p]
    IN /\ p \in PagePasses /\ ps.pc = "fetch" /\ ps.pos > Len(ps.snap)
       /\ lastSync' = clock
       /\ pass' = [pass EXCEPT ![p] = IdlePass]
       /\ UNCHANGED <<online, session, clock, idVars, records, syncedCount,
                      serverVars, uiSubmitted, failures, auxVars>>

SyncReturn(p) ==
    LET ps == pass[p]
    IN /\ p \in PagePasses /\ ps.pc = "fetch" /\ ps.pos > Len(ps.snap)
       /\ lastSync' = IF ps.success > 0 THEN clock ELSE lastSync
       /\ pass' = [pass EXCEPT ![p] = IdlePass]
       /\ UNCHANGED <<online, session, clock, idVars, records, syncedCount,
                      serverVars, uiSubmitted, failures, auxVars>>

\* ----------------------------------------------------- syncAttendanceData
\* one iteration of the service worker's loop up to the answer of fetch
SwFetch(p, o) ==
    LET ps == pass[p]
        r == ps.snap[ps.pos]
        body == <<SwRecord(r)>>
        status == Reply(body, o).status
    IN /\ p = SwPass /\ ps.pc = "fetch" /\ ps.pos <= Len(ps.snap)
       /\ Followed(r.id)
       /\ Post(body, <<r.id>>, o)
       /\ failures' = CountFailure(failures, r.id, status)
       /\ pass' = [pass EXCEPT ![p] =
            IF ResponseOk(status)
            THEN [ps EXCEPT !.status = status, !.pc = "mark"]
            ELSE [ps EXCEPT !.status = status, !.pos = ps.pos + 1]]
       /\ UNCHANGED <<session, clock, idVars, records, lastSync, syncedCount,
                      uiSubmitted, auxVars>>

\* the service worker's markRecordSynced: a missing record resolves, a
\* failure to open the database is caught and logged (the loop keeps no
\* count: `success` is history here, the records this pass has marked)
SwMark(p) ==
    LET ps == pass[p]
        id == ps.snap[ps.pos].id
    IN /\ p = SwPass /\ ps.pc = "mark"
       /\ records' = IF storeOk THEN markRecordSynced(records, id) ELSE records
       /\ syncedCount' = CountTransitions(syncedCount, records, records')
       /\ pass' = [pass EXCEPT ![p] =
            [ps EXCEPT !.pc = "fetch", !.pos = ps.pos + 1,
                       !.success = IF storeOk /\ id \in DOMAIN records
                                   THEN ps.success + 1 ELSE ps.success]]
       /\ UNCHANGED <<online, session, clock, idVars, lastSync, serverVars,
                      uiSubmitted, failures, auxVars>>

\* the message syncAttendanceData posts to the clients when its loop is over
SyncCompleteMessage(p) ==
    [type |-> "SYNC_COMPLETE", synced |-> Len(pass[p].snap)]

\* after the loop: postMessage(SyncCompleteMessage) to every client (no
\* client listens for it); the pass is over
SwNotify(p) ==
    LET ps == pass[p]
    IN /\ p = SwPass /\ ps.pc = "fetch" /\ ps.pos > Len(ps.snap)
       /\ pass' = [pass EXCEPT ![p] = IdlePass]
       /\ UNCHANGED <<online, session, clock, idVars, records, lastSync,
                      syncedCount, serverVars, uiSubmitted, failures, auxVars>>

\* ------------------------------------------------------- manual attendance
\* the body handleSubmit / mutationFn build for the whole roster
ManualBody(marks) ==
    [i \in 1..NumStudents |->
        [studentId |-> i, status |-> marks[i], class |-> TheClass,
         subject |-> TheSubject, period |-> ThePeriod, method |-> "manual",
         date |-> Today]]

\* ManualAttendance: the teacher submits the form; the request goes straight
\* to the server and a failure only raises a toast
ManualSubmit(marks, o) ==
    /\ Post(ManualBody(marks), [i \in 1..NumStudents |-> NoId], o)
    /\ uiSubmitted' = uiSubmitted \cup {ManualBody(marks)[i] : i \in 1..NumStudents}
    /\ UNCHANGED <<session, clock, clientVars, failures, auxVars>>

\* ------------------------------------------------------------------- Next
NetOutcomes == {"unreachable", "answered", "lost"}

\* the steps of the two reconcilers
PassStep ==
    \/ \E p \in PagePasses, o \in NetOutcomes : SyncFetch(p, o)
    \/ \E p \in PagePasses : SyncMark(p)
    \/ \E p \in PagePasses : SyncReturn(p)
    \/ \E o \in NetOutcomes : SwFetch(SwPass, o)
    \/ SwMark(SwPass)
    \/ SwNotify(SwPass)

\* the synchronisation core: local store, connectivity, session, reconcilers
Next ==
    \/ GoOffline
    \/ \E p \in PagePasses : GoOnline(p)
    \/ SwSync
    \/ Logout
    \/ Login
    \/ \E st \in Students, x \in Suffixes :
          storeAttendanceRecord(st, "present", x, 0)
    \/ clearOfflineData
    \/ PassStep

Spec == Init /\ [][Next]_vars

\* the manual attendance form in front of the same server and connection
\* (the local store stays empty: the form never writes to it)
UINext ==
    \/ \E marks \in [Students -> Statuses], o \in NetOutcomes : ManualSubmit(marks, o)
    \/ GoOffline
    \/ \E p \in PagePasses : GoOnline(p)
    \/ \E p \in PagePasses : SyncReturn(p)
    \/ Logout
    \/ Login
    \/ Tick

SpecUI == Init /\ [][UINext]_vars

\* the page alone, with the scheduling the code gives it: a started
\* syncWithServer runs to its end (each await settles), and it is started by
\* nothing but the 'online' event
LivePass ==
    \/ \E p \in PagePasses, o \in {"unreachable", "answered"} : SyncFetch(p, o)
    \/ \E p \in PagePasses : SyncMark(p)
    \/ \E p \in PagePasses : SyncReturn(p)

LiveNext ==
    \/ GoOffline
    \/ \E p \in PagePasses : GoOnline(p)
    \/ Logout
    \/ Login
    \/ \E st \in Students, x \in Suffixes :
          storeAttendanceRecord(st, "present", x, 0)
    \/ LivePass

FairSpec == Init /\ [][LiveNext]_vars /\ WF_vars(LivePass)

\* the steps syncWithServer takes by itself once a fetch has settled; fetch
\* is called without a signal or a timer, so when it settles is up to the
\* network alone
OwnSteps ==
    \/ \E p \in PagePasses : SyncMark(p)
    \/ \E p \in PagePasses : SyncReturn(p)

SpecNoTimer == Init /\ [][LiveNext]_vars /\ WF_vars(OwnSteps)

\* Settings page, "Force Sync": a toast now and another after two seconds;
\* the sync itself is left to do, so nothing of the state changes
handleForceSync ==
    UNCHANGED vars

\* storeAttendanceRecord of an event whose submissions are followed; the
\* caller may pass an event without its status
storeFollowed(student, status, suffix) ==
    /\ Enqueue(student, status, suffix, 0, MaxRecords)
    /\ failures' = failures @@ (generateId(clock, suffix) :> 0)

\* the page with its store and the server: events with or without a status,
\* automatic passes on every 'online' event, the Force Sync button
RetryNext ==
    \/ GoOffline
    \/ \E p \in PagePasses : GoOnline(p)
    \/ Logout
    \/ Login
    \/ \E st \in Students, status \in {"present", Null}, x \in Suffixes :
          storeFollowed(st, status, x)
    \/ \E p \in PagePasses, o \in NetOutcomes : SyncFetch(p, o)
    \/ \E p \in PagePasses : SyncMark(p)
    \/ \E p \in PagePasses : SyncReturn(p)
    \/ handleForceSync

SpecRetry == Init /\ [][RetryNext]_vars

\* ------------------------------------------------------------------ roster
\* MemStorage.getAllStudents: the active students (as a set: the claims do
\* not depend on the order of the list)
getAllStudents == {students[id] : id \in {i \in DOMAIN students : students[i].isActive}}

\* GET /api/students: the list, filtered by ?class= when given
GetStudents(className) ==
    IF className = Null THEN getAllStudents
    ELSE {st \in getAllStudents : st.class = className}

\* POST /api/students: refused when the roll number is taken
createStudent(roll, class) ==
    LET id == Cardinality(DOMAIN students) + 1
    IN /\ online
       /\ Cardinality(DOMAIN students) < MaxStudents
       /\ \A i \in DOMAIN students : students[i].rollNumber # roll
       /\ students' = students @@ (id :> Student(id, roll, class))
       /\ UNCHANGED <<online, session, clock, clientVars, serverVars,
                      uiSubmitted, failures, navIsOnline, swCache,
                      studentsCache, preload, rosterRead, lastFetched, extVars>>

\* PUT /api/students/:id: { ...student, ...updates } with the body as it is
updateStudent(id, updates) ==
    /\ online
    /\ id \in DOMAIN students
    /\ students' = [students EXCEPT ![id] = updates @@ students[id]]
    /\ UNCHANGED <<online, session, clock, clientVars, serverVars, uiSubmitted,
                   failures, navIsOnline, swCache, studentsCache, preload,
                   rosterRead, lastFetched, extVars>>

\* what the network gives a roster request: the server's list, an error
\* answer of the server (the 500 of the route's catch), or no answer
RosterOutcomes == IF online THEN {"ok", "error"} ELSE {"unreachable"}

\* the service worker's handleApiRequest for GET /api/students[?class=]:
\* network first; an ok answer is put in the cache; when fetch throws, the
\* cached answer of the same request, else a 503 'Offline'
handleApiRequest_NoFallback(className, o) ==
    LET u == RosterUrl(className)
    IN IF o = "ok"
       THEN [response |-> [status |-> 200, students |-> GetStudents(className)],
             cache |-> [swCache EXCEPT ![u] = Some(GetStudents(className))]]
       ELSE IF o = "error"
       THEN [response |-> [status |-> 500, students |-> {}], cache |-> swCache]
       ELSE [response |-> [status |-> 503, students |-> {}], cache |-> swCache]

handleApiRequest(className, o) ==
    LET u == RosterUrl(className)
    IN IF o = "ok"
       THEN [response |-> [status |-> 200, students |-> GetStudents(className)],
             cache |-> [swCache EXCEPT ![u] = Some(GetStudents(className))]]
       ELSE IF o = "error"
       THEN [response |-> [status |-> 500, students |-> {}], cache |-> swCache]
       ELSE IF swCache[u] # None
       THEN [response |-> [status |-> 200, students |-> swCache[u][1]],
             cache |-> swCache]
       ELSE [response |-> [status |-> 503, students |-> {}], cache |-> swCache]

\* a page reads the roster (useQuery on '/api/students')
RosterRead(className, o) ==
    /\ o \in RosterOutcomes
    /\ rosterRead' = Some(handleApiRequest(className, o).response)
    /\ swCache' = handleApiRequest(className, o).cache
    /\ UNCHANGED <<online, session, clock, clientVars, serverVars, uiSubmitted,
                   failures, navIsOnline, students, studentsCache, preload,
                   lastFetched, extVars>>

\* the entry preloadStudentsForOffline / cacheStudents make of a student
OfflineStudent(st, t) ==
    [id |-> st.id, rollNumber |-> st.rollNumber, class |-> st.class,
     lastUpdated |-> t]

\* the store takes a list whose ids (key path) and roll numbers (unique
\* index) are all different
Storable(list) ==
    \A a \in list, b \in list :
        (a.id = b.id \/ a.rollNumber = b.rollNumber) => a = b

\* OfflineStorage.cacheStudents: one transaction that clears the store and
\* adds every student; a refused add aborts it and the store is as before
cacheStudents_NoClear(cache, list, t) ==
    IF Storable(list)
    THEN [id \in DOMAIN cache \cup {st.id : st \in list} |->
            IF \E st \in list : st.id = id
            THEN OfflineStudent(CHOOSE st \in list : st.id = id, t)
            ELSE cache[id]]
    ELSE cache

cacheStudents(cache, list, t) ==
    IF Storable(list)
    THEN [id \in {st.id : st \in list} |->
            OfflineStudent(CHOOSE st \in list : st.id = id, t)]
    ELSE cache

\* preloadStudentsForOffline up to the answer of fetch: an answer that is
\* not ok, or no answer, ends it
PreloadFetch(className, o) ==
    LET r == handleApiRequest(className, o)
    IN /\ o \in RosterOutcomes
       /\ preload = None
       /\ ResponseOk(r.response.status)
       /\ preload' = Some(r.response.students)
       /\ swCache' = r.cache
       /\ UNCHANGED <<online, session, clock, clientVars, serverVars,
                      uiSubmitted, failures, navIsOnline, students,
                      studentsCache, rosterRead, lastFetched, extVars>>

PreloadFail(className, o) ==
    LET r == handleApiRequest(className, o)
    IN /\ o \in RosterOutcomes
       /\ preload = None
       /\ ~ResponseOk(r.response.status)
       /\ swCache' = r.cache
       /\ UNCHANGED <<online, session, clock, clientVars, serverVars,
                      uiSubmitted, failures, navIsOnline, students,
                      studentsCache, preload, rosterRead, lastFetched, extVars>>

\* preloadStudentsForOffline after the answer: cacheStudents of the list
PreloadCache ==
    /\ preload # None
    /\ studentsCache' = cacheStudents(studentsCache, preload[1], clock)
    /\ lastFetched' = preload
    /\ preload' = None
    /\ UNCHANGED <<online, session, clock, clientVars, serverVars, uiSubmitted,
                   failures, navIsOnline, students, swCache, rosterRead, extVars>>

\* the roster read: the server's students, the service worker's cache and
\* the pages that read '/api/students'
RosterNext ==
    \/ GoOffline
    \/ \E p \in PagePasses : GoOnline(p)
    \/ \E p \in PagePasses : SyncReturn(p)
    \/ \E roll \in RollNumbers, class \in Classes : createStudent(roll, class)
    \/ \E id \in 1..MaxStudents, roll \in RollNumbers :
          updateStudent(id, [rollNumber |-> roll])
    \/ \E c \in {Null, TheClass}, o \in {"ok", "error", "unreachable"} :
          RosterRead(c, o)

SpecRoster == Init /\ [][RosterNext]_vars

\* the offline roster: preloadStudentsForOffline fills studentsCache from
\* '/api/students' while students are added, renumbered and deactivated
PreloadNext ==
    \/ GoOffline
    \/ \E p \in PagePasses : GoOnline(p)
    \/ \E p \in PagePasses : SyncReturn(p)
    \/ \E roll \in RollNumbers, class \in Classes : createStudent(roll, class)
    \/ \E id \in 1..MaxStudents, roll \in RollNumbers :
          updateStudent(id, [rollNumber |-> roll])
    \/ \E id \in 1..MaxStudents : updateStudent(id, [isActive |-> FALSE])
    \/ \E c \in {Null, TheClass}, o \in {"ok", "error", "unreachable"} :
          PreloadFetch(c, o)
    \/ \E c \in {Null, TheClass}, o \in {"ok", "error", "unreachable"} :
          PreloadFail(c, o)
    \/ PreloadCache
    \/ clearOfflineData

SpecPreload == Init /\ [][PreloadNext]_vars

\* MobileNav (and the Settings page) mount: useState(navigator.onLine) reads
\* the connectivity once; nothing ever sets the state again
MobileNavMount ==
    /\ navIsOnline' = Some(online)
    /\ UNCHANGED <<online, session, clock, clientVars, serverVars, uiSubmitted,
                   failures, rosterVars, extVars>>

\* the "Pending Records" line of the Settings page's Offline & Sync card
SettingsPendingRecords == 0

\* the pages that show the sync status, over the store and the reconciler
StatusNext ==
    \/ MobileNavMount
    \/ GoOffline
    \/ \E p \in PagePasses : GoOnline(p)
    \/ \E st \in Students, x \in Suffixes :
          storeAttendanceRecord(st, "present", x, 0)
    \/ \E p \in PagePasses, o \in NetOutcomes : SyncFetch(p, o)
    \/ \E p \in PagePasses : SyncMark(p)
    \/ \E p \in PagePasses : SyncReturn(p)

SpecStatus == Init /\ [][StatusNext]_vars

\* the reconnect scenario: a teacher marks up to ScenarioRecords students,
\* the connection comes and goes, the session may lapse, and every 'online'
\* event starts syncWithServer
ReconnectNext ==
    \/ GoOffline
    \/ \E p \in PagePasses : GoOnline(p)
    \/ Logout
    \/ Login
    \/ \E st \in 1..ScenarioRecords, x \in 0..(ScenarioRecords - 1) :
          Enqueue(st, "present", x, 0, ScenarioRecords) /\ UNCHANGED failures
    \/ \E p \in PagePasses, o \in NetOutcomes : SyncFetch(p, o)
    \/ \E p \in PagePasses : SyncMark(p)
    \/ \E p \in PagePasses : SyncReturn(p)

SpecReconnect == Init /\ [][ReconnectNext]_vars

\* ----------------------------------------------------------------- claims
\* ---------------------------------------------------------- broken store
\* the database stops being usable (indexedDB.open fails: storage revoked,
\* quota, private browsing, a corrupted profile) and becomes usable again
StoreBreaks ==
    /\ storeOk
    /\ storeOk' = FALSE
    /\ UNCHANGED <<online, session, clock, clientVars, serverVars, uiSubmitted,
                   failures, navIsOnline, rosterVars, apiReply, abandoned,
                   write>>

StoreRecovers ==
    /\ ~storeOk
    /\ storeOk' = TRUE
    /\ UNCHANGED <<online, session, clock, clientVars, serverVars, uiSubmitted,
                   failures, navIsOnline, rosterVars, apiReply, abandoned,
                   write>>

\* the two reconcilers over a store that may fail
StoreNext ==
    \/ StoreBreaks
    \/ StoreRecovers
    \/ GoOffline
    \/ \E p \in PagePasses : GoOnline(p)
    \/ SwSync
    \/ \E st \in Students, x \in Suffixes :
          storeAttendanceRecord(st, "present", x, 0)
    \/ PassStep

SpecStore == Init /\ [][StoreNext]_vars

\* ------------------------------------------------------------ transactions
\* the requests each write places on its transaction, in the order placed
StoreRequests(r) == <<[op |-> "add", value |-> r]>>

MarkRequests(id) == <<[op |-> "get", key |-> id], [op |-> "putSynced", key |-> id]>>

RECURSIVE StudentSeq(_)
\* the list in the order of the ids
StudentSeq(S) ==
    IF S = {} THEN <<>>
    ELSE LET m == CHOOSE a \in S : \A b \in S : a.id <= b.id
         IN <<m>> \o StudentSeq(S \ {m})

CacheRequests(list, t) ==
    <<[op |-> "clear"]>> \o
    [i \in 1..Cardinality(list) |->
        [op |-> "add", value |-> OfflineStudent(StudentSeq(list)[i], t)]]

\* store.add fails on a key the store holds and on a roll number the unique
\* index of studentsCache holds
AddFails(work, v) ==
    \/ v.id \in DOMAIN work
    \/ /\ "rollNumber" \in DOMAIN v
       /\ \E id \in DOMAIN work : work[id].rollNumber = v.rollNumber

\* one request on the transaction's view of the object store
ApplyRequest(work, req) ==
    IF req.op = "clear" THEN [ok |-> TRUE, work |-> [id \in {} |-> 0]]
    ELSE IF req.op = "add"
    THEN IF AddFails(work, req.value) THEN [ok |-> FALSE, work |-> work]
         ELSE [ok |-> TRUE, work |-> work @@ (req.value.id :> req.value)]
    ELSE IF req.op = "putSynced" /\ req.key \in DOMAIN work
    THEN [ok |-> TRUE, work |-> [work EXCEPT ![req.key] = MarkSynced(@)]]
    ELSE [ok |-> TRUE, work |-> work]

\* the transactions a write runs its requests in: each method opens one
\* transaction and places every request on it
TxGroups_PerRequest(reqs) == [i \in 1..Len(reqs) |-> <<reqs[i]>>]

TxGroups(reqs) == <<reqs>>

\* a write under way: the object store, its committed contents when the
\* write began (history), what the write is to leave (history), the
\* transaction's view, the requests still to run and those run (history)
NewWrite(name, pre, reqs, post) ==
    [store |-> name, pre |-> pre, post |-> post, work |-> pre,
     groups |-> TxGroups(reqs), done |-> 0]

\* storeAttendanceRecord up to store.add being placed
BeginStoreRecord(student, suffix) ==
    LET id == generateId(clock, suffix)
        rec == [studentId |-> student, teacherId |-> TheTeacher,
                class |-> TheClass, subject |-> TheSubject,
                period |-> ThePeriod, status |-> "present",
                method |-> "manual", date |-> Today]
        r == OfflineRecord(rec, id, clock)
    IN /\ storeOk /\ write = None
       /\ Cardinality(usedIds) < MaxRecords
       /\ id \notin usedIds
       /\ usedIds' = usedIds \cup {id}
       /\ syncedCount' = syncedCount @@ (id :> 0)
       /\ enqueued' = enqueued \cup {<<student, Today, ThePeriod>>}
       /\ write' = Some(NewWrite("attendanceRecords", records,
                                 StoreRequests(r), AddRecord(records, r)))
       /\ UNCHANGED <<online, session, clock, records, lastSync, pass,
                      serverVars, uiSubmitted, failures, navIsOnline,
                      rosterVars, storeOk, apiReply, abandoned>>

\* markRecordSynced(recordId) up to store.get being placed
BeginMark(id) ==
    /\ storeOk /\ write = None
    /\ id \in DOMAIN records
    /\ write' = Some(NewWrite("attendanceRecords", records, MarkRequests(id),
                              markRecordSynced(records, id)))
    /\ UNCHANGED <<online, session, clock, clientVars, serverVars, uiSubmitted,
                   failures, navIsOnline, rosterVars, storeOk, apiReply,
                   abandoned>>

\* preloadStudentsForOffline after the answer: cacheStudents of the list up
\* to store.clear being placed
BeginCache ==
    /\ storeOk /\ write = None
    /\ preload # None
    /\ write' = Some(NewWrite("studentsCache", studentsCache,
                              CacheRequests(preload[1], clock),
                              cacheStudents(studentsCache, preload[1], clock)))
    /\ lastFetched' = preload
    /\ preload' = None
    /\ UNCHANGED <<online, session, clock, clientVars, serverVars, uiSubmitted,
                   failures, navIsOnline, students, swCache, studentsCache,
                   rosterRead, storeOk, apiReply, abandoned>>

\* the next request of the transaction runs; a failed request aborts the
\* transaction (its error is not prevented) and the write is over
WriteStep ==
    /\ write # None
    /\ Len(Head(write[1].groups)) > 0
    /\ LET w == write[1]
           a == ApplyRequest(w.work, Head(Head(w.groups)))
       IN write' = IF a.ok
                   THEN Some([w EXCEPT !.work = a.work, !.done = @ + 1,
                                       !.groups = <<Tail(Head(w.groups))>>
                                                     \o Tail(w.groups)])
                   ELSE None
    /\ UNCHANGED <<online, session, clock, clientVars, serverVars, uiSubmitted,
                   failures, navIsOnline, rosterVars, storeOk, apiReply,
                   abandoned>>

\* the transaction has no request left and commits: its view becomes the
\* contents of the object store
WriteCommit ==
    /\ write # None
    /\ Len(Head(write[1].groups)) = 0
    /\ LET w == write[1]
       IN /\ records' = IF w.store = "attendanceRecords" THEN w.work ELSE records
          /\ studentsCache' = IF w.store = "studentsCache" THEN w.work
                              ELSE studentsCache
          /\ write' = IF Len(w.groups) = 1 THEN None
                      ELSE Some([w EXCEPT !.groups = Tail(w.groups)])
    /\ UNCHANGED <<online, session, clock, idVars, lastSync, pass, syncedCount,
                   serverVars, uiSubmitted, failures, navIsOnline, students,
                   swCache, preload, rosterRead, lastFetched, storeOk,
                   apiReply, abandoned>>

\* the page and the service worker are killed and started again: what lived
\* in memory is gone (the passes, a preload, the component state), a
\* transaction that has not committed is rolled back, and initialize() opens
\* the database as it is (history: the records submitted and not yet marked,
\* and the non-empty object stores whose write had run a request)
Teardown ==
    /\ write' = None
    /\ pass' = [p \in Passes |-> IdlePass]
    /\ preload' = None
    /\ navIsOnline' = None
    /\ abandoned' =
         [ids |-> abandoned.ids \cup
                    {pass[p].snap[pass[p].pos].id :
                        p \in {q \in Passes : pass[q].pc = "mark"}},
          writes |-> abandoned.writes \cup
                    (IF write # None /\ write[1].done > 0
                        /\ write[1].pre # <<>>
                     THEN {write[1].store} ELSE {})]
    /\ UNCHANGED <<online, session, clock, idVars, records, lastSync,
                   syncedCount, serverVars, uiSubmitted, failures, students,
                   swCache, studentsCache, rosterRead, lastFetched, storeOk,
                   apiReply>>

\* the writes of the local store, request by request, with kills in between
CrashNext ==
    \/ \E st \in Students, x \in Suffixes : BeginStoreRecord(st, x)
    \/ \E id \in DOMAIN records : BeginMark(id)
    \/ \E roll \in RollNumbers : createStudent(roll, TheClass)
    \/ \E id \in 1..MaxStudents, roll \in RollNumbers :
          updateStudent(id, [rollNumber |-> roll])
    \/ PreloadFetch(Null, "ok")
    \/ BeginCache
    \/ WriteStep
    \/ WriteCommit
    \/ Teardown

SpecCrash == Init /\ [][CrashNext]_vars

\* ------------------------------------------------------------------ order
\* syncWithServer over records captured while the clock runs
OrderNext ==
    \/ \E st \in Students, x \in Suffixes, dt \in 0..1 :
          storeAttendanceRecord(st, "present", x, dt)
    \/ Tick
    \/ GoOffline
    \/ \E p \in PagePasses : GoOnline(p)
    \/ \E p \in PagePasses, o \in NetOutcomes : SyncFetch(p, o)
    \/ \E p \in PagePasses : SyncMark(p)
    \/ \E p \in PagePasses : SyncReturn(p)

SpecOrder == Init /\ [][OrderNext]_vars

\* --------------------------------------------------------------- teardown
\* syncWithServer with the page closed and opened again at any moment
TeardownNext ==
    \/ \E st \in Students, x \in Suffixes :
          storeAttendanceRecord(st, "present", x, 0)
    \/ GoOffline
    \/ \E p \in PagePasses : GoOnline(p)
    \/ \E p \in PagePasses, o \in NetOutcomes : SyncFetch(p, o)
    \/ \E p \in PagePasses : SyncMark(p)
    \/ \E p \in PagePasses : SyncReturn(p)
    \/ Teardown

SpecTeardown == Init /\ [][TeardownNext]_vars

\* ------------------------------------------------------------- statistics
\* MemStorage.getAttendanceStats(date): the rows of the date counted by
\* status, the active students, and Math.round(present / total * 100)
getAttendanceStats(date) ==
    LET todayAttendance == {i \in 1..Len(attendance) : attendance[i].date = date}
        totalStudents == Cardinality({id \in DOMAIN students : students[id].isActive})
        presentToday == Cardinality({i \in todayAttendance :
                                        attendance[i].status = "present"})
        absentToday == Cardinality({i \in todayAttendance :
                                       attendance[i].status = "absent"})
    IN [totalStudents |-> totalStudents,
        presentToday |-> presentToday,
        absentToday |-> absentToday,
        attendanceRate |-> IF totalStudents > 0
                           THEN (200 * presentToday + totalStudents)
                                    \div (2 * totalStudents)
                           ELSE 0]

\* -------------------------------------------------------------- endpoints
\* an element of a request body: the fields the manual form sends; a status
\* of Null is a status outside the enum of insertAttendanceSchema
ApiElement(status) ==
    [studentId |-> 1, status |-> status, class |-> TheClass,
     subject |-> TheSubject, period |-> ThePeriod, method |-> "manual",
     date |-> Today]

\* the bodies an HTTP client sends: req.body is one record or an array
ApiBodies ==
    {<<ApiElement(a)>> : a \in Statuses \cup {Null}}
        \cup {<<ApiElement(a), ApiElement(b)>> : a, b \in Statuses \cup {Null}}

\* a client calls POST /api/attendance/mark with the session it has
ApiPostMark(body, o) ==
    /\ body \in ApiBodies
    /\ Post(body, [i \in 1..Len(body) |-> NoId], o)
    /\ apiReply' = Some([body |-> body, auth |-> session,
                         status |-> Reply(body, o).status])
    /\ UNCHANGED <<session, clock, clientVars, uiSubmitted, failures,
                   navIsOnline, rosterVars, storeOk, abandoned, write>>

\* the two endpoints in front of clients with and without a session
ApiNext ==
    \/ \E body \in ApiBodies, o \in NetOutcomes : ApiPostMark(body, o)
    \/ \E c \in {TheClass, Null}, o \in {"ok", "error", "unreachable"} : RosterRead(c, o)
    \/ GoOffline
    \/ \E p \in PagePasses : GoOnline(p)
    \/ \E p \in PagePasses : SyncReturn(p)
    \/ Logout
    \/ Login

SpecApi == Init /\ [][ApiNext]_vars

Is2xx(status) == status \in 200..299

Running(p) == pass[p].pc # "idle"

\* local ids pass p has posted in its current run
Submitted(p) ==
    {pass[p].snap[i].id :
        i \in {j \in 1..Len(pass[p].snap) :
                  j < pass[p].pos \/ (j = pass[p].pos /\ pass[p].pc = "mark")}}

\* pass p got a 2xx for record id, called markRecordSynced and moved on
MarkedBy(p, id) ==
    /\ pass[p].pc = "fetch" /\ pass[p].pos > 1
    /\ pass[p].snap[pass[p].pos - 1].id = id
    /\ Is2xx(pass[p].status)

\* ledger rows that were created from local record id
RowsOf(id) == {i \in 1..Len(rowOrigin) : rowOrigin[i] = id}

\* the attendance fields of a ledger row
RowData(row) ==
    [studentId |-> row.studentId, teacherId |-> row.teacherId,
     class |-> row.class, subject |-> row.subject, date |-> row.date,
     period |-> row.period, status |-> row.status, method |-> row.method]

Attempts(r) == IF "attempts" \in DOMAIN r THEN r.attempts ELSE 0

\* in this step pass p gives up on the record at its position after a
\* submission that was not answered 2xx
FailedAttempt(p) ==
    /\ pass'[p].pos = pass[p].pos + 1
    /\ ~Is2xx(pass'[p].status)

\* C1: two reconciliation passes that run at the same time never submit the
\* same record: the sets of local ids they have posted are disjoint.
C1_NoRecordSubmittedByTwoPasses ==
    \A p \in Passes, q \in Passes :
        (p # q /\ Running(p) /\ Running(q))
            => Submitted(p) \cap Submitted(q) = {}

\* C2: however often passes that hold the same pending snapshot mark a
\* record, its id goes from unsynced to synced at most once.
C2_AtMostOneSyncedTransition ==
    \A id \in DOMAIN syncedCount : syncedCount[id] <= 1

C2_Witness ==
    \E id \in DOMAIN records, p \in Passes, q \in Passes :
        /\ p # q /\ MarkedBy(p, id) /\ MarkedBy(q, id)
        /\ records[id].synced /\ syncedCount[id] = 1

\* C3 as stated: for every synced local record the server has received a
\* submission that carried the record's local id.
C3_ServerReceivedLocalId ==
    \A id \in DOMAIN records : records[id].synced => id \in receivedIds

\* C3 amended: for every synced local record the server has received, and
\* stored a row for, a submission made from that record and carrying its
\* attendance fields (the local id itself travels only in the service
\* worker's requests).
C3_ServerHoldsRecord ==
    \A id \in DOMAIN records :
        records[id].synced =>
            \E i \in RowsOf(id) :
                RowData(attendance[i])
                    = InsertAttendance(ApiRecord(records[id]), TheTeacher)

C3_Witness ==
    \E id \in DOMAIN records :
        records[id].synced /\ id \notin receivedIds /\ RowsOf(id) # {}

\* C4: however often one local record is submitted, the server ledger holds
\* at most one row for it.
C4_OneRowPerRecord ==
    \A id \in usedIds : Cardinality(RowsOf(id)) <= 1

\* C5 as stated: the pending records never outnumber the distinct
\* (studentId, date, period) combinations that were enqueued.
C5_PendingWithinDistinctKeys ==
    Cardinality(PendingIds) <= Cardinality(enqueued)

\* C5 amended: the pending records never outnumber the storeAttendanceRecord
\* calls, and every call appends one new unsynced record under a fresh id and
\* leaves the records already stored as they are, also when one of them has
\* the same (studentId, date, period).
C5_EnqueueAppends ==
    /\ [](Cardinality(PendingIds) <= Cardinality(usedIds))
    /\ [][usedIds' # usedIds =>
            \E id \in usedIds' \ usedIds :
                /\ id \notin DOMAIN records
                /\ DOMAIN records' = DOMAIN records \cup {id}
                /\ ~records'[id].synced
                /\ \A j \in DOMAIN records : records'[j] = records[j]]_vars

C5_Witness ==
    \E a \in PendingIds, b \in PendingIds :
        /\ a # b
        /\ records[a].studentId = records[b].studentId
        /\ records[a].date = records[b].date
        /\ records[a].period = records[b].period

\* C6: every attendance mark the teacher has submitted is in the local store
\* or on the server, whatever the connection was at the time.
C6_SubmittedMarksKept ==
    \A e \in uiSubmitted :
        \/ \E id \in DOMAIN records : ApiRecord(records[id]) = e
        \/ \E i \in 1..Len(attendance) :
              RowData(attendance[i]) = InsertAttendance(e, TheTeacher)

\* C7: if from some point on the connection is up and the server accepts,
\* every stored record is eventually marked synced.
C7_EventuallyDelivered ==
    (<>[](online /\ session)) =>
        \A id \in {generateId(t, x) : t \in 1..MaxTime, x \in Suffixes} :
            [](id \in DOMAIN records =>
                  <>(id \in DOMAIN records /\ records[id].synced))

\* C8: a record that is synced stays synced for as long as it is stored.
C8_SyncedNeverReverts ==
    [][\A id \in DOMAIN records :
          (records[id].synced /\ id \in DOMAIN records') => records'[id].synced]_vars

C8_Witness ==
    \E id \in DOMAIN records, p \in Passes, q \in Passes :
        /\ p # q /\ MarkedBy(p, id) /\ MarkedBy(q, id)
        /\ records[id].synced
        /\ PendingIds # {}

\* C9 as stated: a record stops being pending only by being marked synced
\* after the server has acknowledged it.
C9_LeavesQueueOnlyWhenSynced ==
    [][\A id \in PendingIds :
          id \notin PendingIds' =>
              /\ id \in DOMAIN records' /\ records'[id].synced
              /\ RowsOf(id) # {}]_vars

\* C9 amended: a record stops being pending only by being marked synced
\* after the server has acknowledged it, or by clearOfflineData emptying the
\* store.
C9_LeavesQueueWhenSyncedOrCleared ==
    [][\A id \in PendingIds :
          id \notin PendingIds' =>
              \/ /\ id \in DOMAIN records' /\ records'[id].synced
                 /\ RowsOf(id) # {}
              \/ DOMAIN records' = {} /\ lastSync' = 0]_vars

C9_Witness ==
    /\ usedIds \ DOMAIN records # {}
    /\ \E id \in DOMAIN records : records[id].synced /\ RowsOf(id) # {}

\* C10 as stated: after a failed submission the record is pending, its
\* attempts count is one higher and its other fields are unchanged.
C10_FailureBumpsAttempts ==
    [][\A p \in Passes :
          FailedAttempt(p) =>
              LET old == pass[p].snap[pass[p].pos]
              IN /\ old.id \in DOMAIN records'
                 /\ ~records'[old.id].synced
                 /\ Attempts(records'[old.id]) = Attempts(old) + 1
                 /\ \A f \in DOMAIN old \ {"attempts"} :
                       records'[old.id][f] = old[f]]_vars

\* C10 amended: a failed submission leaves the store as it is: the record
\* keeps every field (it is pending unless another pass has marked it or the
\* store was cleared), and no record has an attempts count.
C10_FailureLeavesStore ==
    [][\A p \in Passes :
          FailedAttempt(p) =>
              /\ records' = records
              /\ \A id \in DOMAIN records : "attempts" \notin DOMAIN records[id]]_vars

C10_Witness ==
    \E p \in Passes :
        /\ pass[p].pc = "fetch" /\ pass[p].pos > 1
        /\ ~Is2xx(pass[p].status)
        /\ pass[p].snap[pass[p].pos - 1].id \in PendingIds

\* C11: a record whose last RetryCeiling submissions all failed is no longer
\* handed to the automatic passes (it is not pending) and is not submitted
\* once more.
C11_RetryCeiling ==
    \A id \in DOMAIN failures :
        failures[id] >= RetryCeiling =>
            /\ id \notin PendingIds
            /\ failures[id] = RetryCeiling

\* C12: a record the server rejects on its own (a validation failure,
\* answered 400) leaves the pending records at once, so that no later
\* automatic pass submits it again.
C12_RejectedLeavesQueue ==
    [][\A p \in Passes :
          (pass'[p].pos = pass[p].pos + 1 /\ pass'[p].status = 400) =>
              pass[p].snap[pass[p].pos].id \notin PendingIds']_vars

\* the fields enqueue has to find in an event
RequiredPresent(r) ==
    /\ r.studentId \in Students
    /\ r.class \in Classes
    /\ r.date = Today
    /\ r.status \in Statuses
    /\ r.method \in {"manual", "facial", "rfid"}

\* C15: storeAttendanceRecord accepts complete events only: every stored
\* record has its student, class, date, status and method.
C15_StoredEventsComplete ==
    \A id \in DOMAIN records : RequiredPresent(records[id])

\* the local ids of the snapshot pass p works on
SnapIds(p) == {pass[p].snap[i].id : i \in 1..Len(pass[p].snap)}

\* C13: as long as the server has received nothing, every stored event is
\* pending and getSyncStatus counts them all; and when a pass that started
\* with all the stored events ends with every submission accepted, all of
\* them are synced and getSyncStatus().pendingRecords is 0.
C13_OfflineMarkThenReconnect ==
    /\ [](attendance = <<>> =>
            /\ PendingIds = usedIds
            /\ getSyncStatus.pendingRecords = Cardinality(usedIds))
    /\ [][\A p \in PagePasses :
            (/\ Running(p) /\ pass'[p].pc = "idle"
             /\ pass[p].failed = 0
             /\ SnapIds(p) = usedIds /\ DOMAIN records = usedIds) =>
                /\ \A id \in usedIds : records'[id].synced
                /\ getSyncStatus'.pendingRecords = 0]_vars

C13_Witness ==
    /\ Cardinality(usedIds) = ScenarioRecords
    /\ Cardinality({records[id].studentId : id \in DOMAIN records}) = ScenarioRecords
    /\ \A id \in usedIds : records[id].synced /\ syncedCount[id] = 1
    /\ \A p \in Passes : ~Running(p)
    /\ getSyncStatus.pendingRecords = 0
    /\ lastSync # 0
    /\ Len(attendance) = ScenarioRecords

\* C14: at most one reconciliation pass runs at a time.
C14_OnePassAtATime ==
    Cardinality({p \in Passes : Running(p)}) <= 1

\* C16 as stated: a roster read whose fetch fails, offline or by an error
\* answer of the server, is served the cached answer if there is one and an
\* answer that says the data is unavailable otherwise; any other answer is
\* the server's list.
C16_FallbackOnAnyFailure ==
    [][rosterRead' # rosterRead =>
          \E c \in {Null, TheClass} :
              LET u == RosterUrl(c)
                  r == rosterRead'[1]
              IN \/ online /\ r = [status |-> 200, students |-> GetStudents(c)]
                 \/ swCache[u] # None
                       /\ r = [status |-> 200, students |-> swCache[u][1]]
                 \/ swCache[u] = None
                       /\ ~ResponseOk(r.status) /\ r.students = {}]_vars

\* C16 amended: a roster read whose fetch throws (the client is offline) is
\* served the cached answer of the same request if there is one and a 503
\* 'Offline' answer otherwise; an error answer of the server is passed on
\* as it is; and the cache only ever takes a list the server has just sent.
C16_FallbackWhenUnreachable ==
    /\ [][rosterRead' # rosterRead =>
            \E c \in {Null, TheClass} :
                LET u == RosterUrl(c)
                    r == rosterRead'[1]
                IN \/ online /\ r = [status |-> 200, students |-> GetStudents(c)]
                   \/ online /\ r = [status |-> 500, students |-> {}]
                             /\ swCache' = swCache
                   \/ ~online /\ swCache[u] # None
                         /\ r = [status |-> 200, students |-> swCache[u][1]]
                   \/ ~online /\ swCache[u] = None
                         /\ r = [status |-> 503, students |-> {}]]_vars
    /\ [][\A c \in {Null, TheClass} :
            swCache'[RosterUrl(c)] # swCache[RosterUrl(c)] =>
                online /\ swCache'[RosterUrl(c)] = Some(GetStudents(c))]_vars

C16_Witness ==
    \E c \in {Null, TheClass} :
        /\ ~online
        /\ swCache[RosterUrl(c)] # None
        /\ swCache[RosterUrl(c)][1] # GetStudents(c)
        /\ rosterRead = Some([status |-> 200,
                              students |-> swCache[RosterUrl(c)][1]])

\* what a roster entry says of a student
Entry(st) == [id |-> st.id, rollNumber |-> st.rollNumber, class |-> st.class]

\* the students studentsCache holds
CachedRoster == {Entry(studentsCache[id]) : id \in DOMAIN studentsCache}

C18_LastSyncOnEveryCompletion ==
    [][\A p \in Passes :
          (Running(p) /\ pass'[p].pc = "idle") => lastSync' = clock']_vars

\* C18 amended: when a syncWithServer pass ends having synced at least one
\* record, the last-sync timestamp becomes the time at which it ended; a
\* pass that synced nothing, and every pass of the service worker, leaves
\* the timestamp as it was.
C18_LastSyncWhenSynced ==
    [][\A p \in Passes :
          (Running(p) /\ pass'[p].pc = "idle") =>
              lastSync' = IF p \in PagePasses /\ pass[p].success > 0
                          THEN clock' ELSE lastSync]_vars

C18_Witness ==
    /\ lastSync = clock
    /\ \A p \in Passes : ~Running(p)
    /\ \E id \in DOMAIN records : records[id].synced
    /\ PendingIds # {}

\* C19: what is shown of the sync status is what a read of getSyncStatus
\* gives at that moment: the read counts the unsynced records of the store
\* and takes the connectivity as it is, and the pages show these values, not
\* ones kept from an earlier moment.
C19_StatusShownIsCurrent ==
    /\ getSyncStatus.pendingRecords = Cardinality(PendingIds)
    /\ getSyncStatus.isOnline = online
    /\ navIsOnline # None => navIsOnline[1] = getSyncStatus.isOnline
    /\ SettingsPendingRecords = getSyncStatus.pendingRecords

\* C20: a submission answered 401 leaves the pass with another result than a
\* submission that failed in transport, and after a 401 the pass submits
\* nothing more.
C20_UnauthenticatedIsDistinct ==
    /\ [](\A p \in PagePasses :
            (pass[p].pc = "fetch" /\ pass[p].pos <= Len(pass[p].snap)) =>
                SyncResult(AfterResponse(pass[p], 401))
                    # SyncResult(AfterResponse(pass[p], 0)))
    /\ [][\A p \in PagePasses :
            (pass[p].pc = "fetch" /\ pass[p].pos > 1 /\ pass[p].status = 401) =>
                pass'[p].pos = pass[p].pos \/ pass'[p].pc = "idle"]_vars

\* C21: both endpoints require an authenticated session: a request to
\* POST /api/attendance/mark without a session stores no row, and a request
\* to GET /api/students without a session that reaches the server is given
\* no roster data.
C21_EndpointsRequireSession ==
    [][/\ (~session /\ apiReply' # apiReply) => attendance' = attendance
       /\ (~session /\ online /\ rosterRead' # rosterRead)
             => rosterRead'[1].students = {}]_vars

\* C22: a store that cannot be opened or read is distinguishable from an
\* empty queue: neither syncWithServer nor the service worker's
\* syncAttendanceData runs as a pass over zero pending records when the
\* store is broken.
C22_BrokenStoreIsNotEmptyQueue ==
    [][\A p \in Passes : (~storeOk /\ ~Running(p)) => ~Running(p)']_vars

\* C23: store writes are crash-safe: when a write (storeAttendanceRecord,
\* markRecordSynced's read-then-put, cacheStudents' clear-then-add) is over,
\* whether it committed, failed or was cut short by a kill of the process,
\* the object store holds either the complete contents from before the write
\* or the complete contents the write was to leave, never a mix.
C23_WritesAreAllOrNothing ==
    [][(write # None /\ write' = None) =>
         IF write[1].store = "attendanceRecords"
         THEN records' \in {write[1].pre, write[1].post}
         ELSE studentsCache' \in {write[1].pre, write[1].post}]_vars

\* a kill after cacheStudents' clear had run: the cache of before is intact
C23_Witness ==
    /\ write = None
    /\ abandoned.writes = {"studentsCache", "attendanceRecords"}
    /\ studentsCache # <<>>

\* C24: pending records are processed oldest first: within a pass the
\* records are submitted (in the order of the pass's list) in ascending
\* order of their capture timestamp.
C24_OldestFirst ==
    \A p \in Passes : \A i, j \in 1..Len(pass[p].snap) :
        i < j => pass[p].snap[i].timestamp <= pass[p].snap[j].timestamp

\* C24 (amended): within a pass the records are submitted in ascending order
\* of their local ids, which begin with the time in milliseconds at which
\* the id was generated; so records whose ids were generated in different
\* milliseconds are submitted oldest first.
C24_AscendingIds ==
    \A p \in Passes : \A i, j \in 1..Len(pass[p].snap) :
        i < j => /\ IdLess(pass[p].snap[i].id, pass[p].snap[j].id)
                 /\ pass[p].snap[i].id[1] < pass[p].snap[j].id[1]
                       => pass[p].snap[i].timestamp <= pass[p].snap[j].timestamp

\* a pass has submitted the older of two records generated at different
\* times and is about to submit the younger
C24_Witness ==
    \E p \in PagePasses :
        /\ pass[p].pc = "fetch" /\ pass[p].pos = 2 /\ Len(pass[p].snap) = 2
        /\ pass[p].snap[1].id[1] < pass[p].snap[2].id[1]
        /\ pass[p].snap[1].timestamp < pass[p].snap[2].timestamp

\* C25: every reconciliation pass terminates: a pass that has started
\* eventually completes and returns its result, even if the server never
\* answers a request (a bounded timeout ends the wait).
C25_EveryPassTerminates ==
    \A p \in PagePasses : [](Running(p) => <>(~Running(p)))

\* C26: abandoned pass recovery: when a pass is torn down after a record was
\* submitted and before it was marked synced, the record is pending after
\* the restart, and every pass that starts takes all pending records, so the
\* next pass submits it again; it is in no intermediate state.
C26_AbandonedRecordStaysPending ==
    [][/\ \A p \in Passes :
            (pass[p].pc = "mark" /\ pass'[p].pc = "idle")
               => LET id == pass[p].snap[pass[p].pos].id
                  IN id \in PendingIds => id \in PendingIds'
       /\ \A p \in Passes :
            (~Running(p) /\ Running(p)') => SnapIds(p)' = PendingIds']_vars

\* a record whose pass was torn down between the submission and the mark
\* has been submitted again by a later pass and is now synced
C26_Witness ==
    \E id \in abandoned.ids :
        /\ id \in DOMAIN records /\ records[id].synced
        /\ Cardinality(RowsOf(id)) >= 2

C28_SyncCompleteCountsMarked ==
    [][(pass[SwPass].pc = "fetch" /\ pass[SwPass].pos > Len(pass[SwPass].snap)
          /\ pass'[SwPass].pc = "idle")
          => SyncCompleteMessage(SwPass).synced = pass[SwPass].success]_vars

\* C29: roll numbers are unique among the server's students: after any
\* interleaving of POST /api/students and PUT /api/students/:id requests no
\* two stored students have the same rollNumber.
C29_RollNumbersUnique ==
    \A a, b \in DOMAIN students :
        a # b => students[a].rollNumber # students[b].rollNumber

\* C30: the daily statistics stay consistent after any sequence of
\* attendance submissions, resubmissions by sync retries included:
\* getAttendanceStats returns presentToday + absentToday <= totalStudents
\* and 0 <= attendanceRate <= 100.
C30_StatsConsistent ==
    LET st == getAttendanceStats(Today)
    IN /\ st.presentToday + st.absentToday <= st.totalStudents
       /\ st.attendanceRate >= 0 /\ st.attendanceRate <= 100

====
